---- MODULE Spec2Model ----
(***************************************************************************)
(* A model of lib/ahrs.py: the AHRS wrapper around the vendor SDK (mscl).  *)
(* The SDK is the environment: its node answers ping() and returns a       *)
(* packet set on every getDataPackets(); everything else is the wrapper's  *)
(* own code, translated method by method.                                  *)
(***************************************************************************)
EXTENDS Integers, Sequences, FiniteSets

VARIABLES
    pc,              \* "start" (no AHRS yet), "ready" (AHRS constructed), "exited" (sys.exit)
    exit_msg,        \* the argument of sys.exit, "" while the program runs
    calls,           \* the SDK calls made by the constructor, in order
    self_node,       \* AHRS.node: "None" or the reference "node"
    latest_packets,  \* AHRS.latest_packets: None or Some(packet set)
    polled,          \* the packet set the node returned on its last getDataPackets
    ret,             \* the outcome of the last call on the wrapper
    latest_packets2, \* a second AHRS object on a node of its own (SpecPair)
    polled2,         \* what the second object's node returned last
    ret2,            \* the outcome of the last call on the second object
    had_roll,        \* an earlier poll of the first object carried channel "roll"
    had_roll2        \* an earlier poll of the second object carried channel "roll"

vars == <<pc, exit_msg, calls, self_node, latest_packets, polled, ret,
          latest_packets2, polled2, ret2, had_roll, had_roll2>>

\* the second object and the history flags, which only SpecPair moves
pair_vars == <<latest_packets2, polled2, ret2, had_roll, had_roll2>>

-----------------------------------------------------------------------------
(* Bounds and input sets *)

\* the number of data points in one polled packet set
MaxPoints == 2

\* the number of data points in one polled packet set, two-object specification
MaxPairPoints == 1

\* the channel names the device streams: two Euler angles, one accelerometer
\* axis and one gyroscope axis (each is a foreign name to the requests for
\* the other groups)
DeviceChannels == {"roll", "yaw", "scaledAccelY", "scaledGyroZ"}

\* the channel names streamed to the two objects of SpecPair
PairChannels == {"roll", "yaw", "scaledAccelY"}

\* the port the program constructs its AHRS on
Ports == {"/dev/ttyACM0"}

RPY_NAMES == <<"roll", "pitch", "yaw">>
ACCEL_NAMES == <<"scaledAccelX", "scaledAccelY", "scaledAccelZ">>
GYRO_NAMES == <<"scaledGyroX", "scaledGyroY", "scaledGyroZ">>

\* the argument lists _get_latest_data is called with directly
NameLists == {RPY_NAMES, ACCEL_NAMES, GYRO_NAMES, <<"yaw", "temperature", "roll">>,
              <<>>, <<"roll", "yaw", "roll">>}

-----------------------------------------------------------------------------
(* Numbers: a float is kept exactly as i + n / 10^9 with 0 <= n < 10^9 *)

NANO == 10^9

Num(i, n) == [i |-> i, n |-> n]

Zero == Num(0, 0)

\* float(v) of the integer sample v a data point carries
FromInt(v) == Num(v, 0)

RAD_2_DEG_INT == 57
RAD_2_DEG_NANO == 295779513

\* x * 57.295779513 for x with no fractional part
TimesRadToDeg(x) == Num(x.i * RAD_2_DEG_INT + (x.i * RAD_2_DEG_NANO) \div NANO,
                        (x.i * RAD_2_DEG_NANO) % NANO)

-----------------------------------------------------------------------------
(* Optional values *)

None == [none |-> TRUE, val |-> <<>>]
Some(v) == [none |-> FALSE, val |-> v]

-----------------------------------------------------------------------------
(* Packet sets: a sequence of packets, a packet a non-empty sequence of data  *)
(* points, a data point a channel name and a sample.  The k-th data point of  *)
(* a packet set carries the sample k, so every point can be told apart.       *)

DataPoint(name, v) == [channelName |-> name, value |-> v]

RECURSIVE Split(_, _, _, _)
\* the points pts cut into packets after each index of cuts
Split(pts, cuts, i, cur) ==
    IF i > Len(pts) THEN (IF cur = <<>> THEN <<>> ELSE <<cur>>)
    ELSE IF i \in cuts THEN <<Append(cur, pts[i])>> \o Split(pts, cuts, i + 1, <<>>)
    ELSE Split(pts, cuts, i + 1, Append(cur, pts[i]))

\* the packet sets of t data points with channel names from channels
PacketSetsOf(channels, t) ==
    { Split([k \in 1..t |-> DataPoint(f[k], k)], cuts, 1, <<>>) :
        f \in [1..t -> channels], cuts \in SUBSET (1..(t - 1)) }

PacketSets == UNION { PacketSetsOf(DeviceChannels, t) : t \in 0..MaxPoints }

PairPacketSets == UNION { PacketSetsOf(PairChannels, t) : t \in 0..MaxPairPoints }

RECURSIVE Flatten(_)
\* the data points of a packet set in scan order
Flatten(packets) ==
    IF packets = <<>> THEN <<>> ELSE Head(packets) \o Flatten(Tail(packets))

-----------------------------------------------------------------------------
(* The vendor SDK as the wrapper sees it *)

\* dataPoint.as_float()
as_float(dataPoint) == FromInt(dataPoint.value)

BAUD == 115200
SAMPLE_HZ == 100
POLL_TIMEOUT == 500

\* one call into the SDK: the function, its string argument (port or class;
\* for ping, which takes none, the answer it gave), its numeric argument, and
\* the channels handed over
Call(fn, str, num, chans) == [fn |-> fn, str |-> str, num |-> num, chans |-> chans]

MipChannel(field, hz) == [field |-> field, hz |-> hz]

-----------------------------------------------------------------------------
(* class AHRS_RPY, class AHRS_Raw *)

AHRS_RPY(roll, pitch, yaw) == [roll |-> roll, pitch |-> pitch, yaw |-> yaw]

AHRS_Raw(ax, ay, az, gx, gy, gz) ==
    [ax |-> ax, ay |-> ay, az |-> az, gx |-> gx, gy |-> gy, gz |-> gz]

\* to_degrees as it would be if it scaled the receiver's fields in place
\* and returned the receiver
to_degrees_in_place(self) ==
    [self |-> AHRS_RPY(TimesRadToDeg(self.roll), TimesRadToDeg(self.pitch),
                       TimesRadToDeg(self.yaw)),
     result |-> AHRS_RPY(TimesRadToDeg(self.roll), TimesRadToDeg(self.pitch),
                         TimesRadToDeg(self.yaw))]

\* AHRS_RPY.to_degrees: the receiver as the call leaves it, and the object returned
to_degrees(self) ==
    LET roll == TimesRadToDeg(self.roll)
        pitch == TimesRadToDeg(self.pitch)
        yaw == TimesRadToDeg(self.yaw)
    IN [self |-> self, result |-> AHRS_RPY(roll, pitch, yaw)]

\* placeholders of a call that produced no such object
NoRPY == AHRS_RPY(Zero, Zero, Zero)
NoRaw == AHRS_Raw(Zero, Zero, Zero, Zero, Zero, Zero)

-----------------------------------------------------------------------------
(* Python's dict, as far as _get_latest_data uses it *)

Range(s) == { s[i] : i \in 1..Len(s) }

RECURSIVE Dedup(_, _)
\* the elements of s that are not in seen, each once, in order of first occurrence
Dedup(s, seen) ==
    IF s = <<>> THEN <<>>
    ELSE IF Head(s) \in seen THEN Dedup(Tail(s), seen)
    ELSE <<Head(s)>> \o Dedup(Tail(s), seen \cup {Head(s)})

\* dict.fromkeys(names, v): the keys in insertion order and the value of each
fromkeys(names, v) == [keys |-> Dedup(names, {}), val |-> [k \in Range(names) |-> v]]

\* d.values(): the values in the insertion order of their keys
dict_values(d) == [i \in 1..Len(d.keys) |-> d.val[d.keys[i]]]

-----------------------------------------------------------------------------
(* class AHRS: the methods as functions of the attributes they read *)

RECURSIVE ScanPoints(_, _)
\* the inner loop of _get_latest_data over one packet's data points
ScanPoints(measurements, point) ==
    IF point = <<>> THEN measurements
    ELSE LET dataPoint == Head(point)
             channelName == dataPoint.channelName
         IN ScanPoints(IF channelName \in DOMAIN measurements.val
                       THEN [measurements EXCEPT !.val[channelName] = as_float(dataPoint)]
                       ELSE measurements,
                       Tail(point))

RECURSIVE ScanPackets(_, _)
\* the outer loop of _get_latest_data over the packets
ScanPackets(measurements, packets) ==
    IF packets = <<>> THEN measurements
    ELSE ScanPackets(ScanPoints(measurements, Head(packets)), Tail(packets))

\* _get_latest_data as it would be if it scanned the last packet only
_get_latest_data_last_packet(lp, names) ==
    IF lp.none THEN None
    ELSE Some(dict_values(ScanPackets(fromkeys(names, Zero),
                                      IF lp.val = <<>> THEN <<>>
                                      ELSE <<lp.val[Len(lp.val)]>>)))

\* AHRS._get_latest_data(names) on self.latest_packets = lp
_get_latest_data(lp, names) ==
    IF lp.none THEN None
    ELSE Some(dict_values(ScanPackets(fromkeys(names, Zero), lp.val)))

\* _read as it would be if it appended the polled packets to the ones held
_read_accumulate(lp, returned) ==
    [calls |-> <<Call("getDataPackets", "", POLL_TIMEOUT, <<>>)>>,
     latest_packets |-> Some((IF lp.none THEN <<>> ELSE lp.val) \o returned)]

\* AHRS._read(): the SDK calls it makes and the new self.latest_packets, given
\* the packet set the node returns
_read(lp, returned) ==
    [calls |-> <<Call("getDataPackets", "", POLL_TIMEOUT, <<>>)>>,
     latest_packets |-> Some(returned)]

\* roll, pitch, yaw = tuple(data); AHRS_RPY(roll, pitch, yaw): tuple(None)
\* raises TypeError
unpack_rpy(data) ==
    IF data.none THEN [kind |-> "TypeError", rpy |-> NoRPY, recv |-> NoRPY]
    ELSE [kind |-> "AHRS_RPY",
          rpy |-> AHRS_RPY(data.val[1], data.val[2], data.val[3]),
          recv |-> NoRPY]

\* AHRS.get_rpy_rad()
get_rpy_rad(lp) == unpack_rpy(_get_latest_data(lp, RPY_NAMES))

\* rpy.to_degrees() on what get_rpy_rad produced: recv is the object
\* to_degrees was called on, as the call leaves it
call_to_degrees(rpy, d) ==
    IF rpy.kind = "TypeError" THEN rpy
    ELSE [kind |-> "AHRS_RPY", rpy |-> d.result, recv |-> d.self]

\* return rpy.to_degrees()
return_to_degrees(rpy) == call_to_degrees(rpy, to_degrees(rpy.rpy))

\* get_rpy_deg as it would be if it forgot the conversion
get_rpy_deg_unconverted(lp) == get_rpy_rad(lp)

\* AHRS.get_rpy_deg()
get_rpy_deg(lp) == return_to_degrees(get_rpy_rad(lp))

\* ax, ay, az = tuple(accel_data); gx, gy, gz = tuple(gyro_data); AHRS_Raw(...)
unpack_raw(accel_data, gyro_data) ==
    IF accel_data.none \/ gyro_data.none THEN [kind |-> "TypeError", raw |-> NoRaw]
    ELSE [kind |-> "AHRS_Raw",
          raw |-> AHRS_Raw(accel_data.val[1], accel_data.val[2], accel_data.val[3],
                           gyro_data.val[1], gyro_data.val[2], gyro_data.val[3])]

\* AHRS.get_raw_data()
get_raw_data(lp) ==
    unpack_raw(_get_latest_data(lp, ACCEL_NAMES), _get_latest_data(lp, GYRO_NAMES))

\* return (rpy, raw), after the read r
update_return(r, rpy, raw) ==
    [calls |-> r.calls,
     latest_packets |-> r.latest_packets,
     kind |-> IF rpy.kind = "TypeError" \/ raw.kind = "TypeError"
              THEN "TypeError" ELSE "tuple",
     rpy |-> rpy.rpy,
     raw |-> raw.raw]

\* the body of update after self._read() has produced r
update_after_read(r, degrees) ==
    update_return(r,
                  IF degrees THEN get_rpy_deg(r.latest_packets)
                  ELSE get_rpy_rad(r.latest_packets),
                  get_raw_data(r.latest_packets))

\* update as it would be if it extracted the fields before polling
update_extract_first(lp, returned, degrees) ==
    update_return(_read(lp, returned),
                  IF degrees THEN get_rpy_deg(lp) ELSE get_rpy_rad(lp),
                  get_raw_data(lp))

\* AHRS.update(degrees), given the packet set the node returns to its poll
update(lp, returned, degrees) == update_after_read(_read(lp, returned), degrees)

EXIT_MESSAGE == "Unable to establish a connection with the Microstrain AHRS."

AHRS_IMU_CHANNELS ==
    <<MipChannel("CH_FIELD_SENSOR_EULER_ANGLES", SAMPLE_HZ),
      MipChannel("CH_FIELD_SENSOR_SCALED_ACCEL_VEC", SAMPLE_HZ),
      MipChannel("CH_FIELD_SENSOR_SCALED_GYRO_VEC", SAMPLE_HZ)>>

\* the SDK calls of __init__ up to and including node.ping()
init_open(com, success) ==
    <<Call("Connection.Serial", com, BAUD, <<>>),
      Call("InertialNode", com, 0, <<>>),
      Call("ping", IF success THEN "True" ELSE "False", 0, <<>>)>>

\* node.setActiveChannelFields(CLASS_AHRS_IMU, ahrsImuChannels)
set_active_channel_fields ==
    Call("setActiveChannelFields", "CLASS_AHRS_IMU", 0, AHRS_IMU_CHANNELS)

\* node.enableDataStream(CLASS_AHRS_IMU)
enable_data_stream == Call("enableDataStream", "CLASS_AHRS_IMU", 0, <<>>)

\* __init__ as it would be without the exit on a failed ping
init_no_exit(com, success) ==
    [calls |-> init_open(com, success) \o <<set_active_channel_fields, enable_data_stream>>,
     exited |-> FALSE, msg |-> "", node |-> "node", latest_packets |-> None]

\* __init__ as it would be if it enabled the stream before setting the channels
init_enable_first(com, success) ==
    IF ~success
    THEN [calls |-> init_open(com, success), exited |-> TRUE, msg |-> EXIT_MESSAGE,
          node |-> "None", latest_packets |-> None]
    ELSE [calls |-> init_open(com, success) \o
                    <<enable_data_stream, set_active_channel_fields>>,
          exited |-> FALSE, msg |-> "", node |-> "node", latest_packets |-> None]

\* AHRS.__init__(com), given the answer of node.ping()
__init__(com, success) ==
    IF ~success
    THEN [calls |-> init_open(com, success), exited |-> TRUE, msg |-> EXIT_MESSAGE,
          node |-> "None", latest_packets |-> None]
    ELSE [calls |-> init_open(com, success) \o
                    <<set_active_channel_fields, enable_data_stream>>,
          exited |-> FALSE, msg |-> "", node |-> "node", latest_packets |-> None]

-----------------------------------------------------------------------------
(* The program: construction, then any sequence of calls on the object *)

\* what a call left behind: its name and arguments, what it produced (kind:
\* the class of the returned object, or the exception raised), the objects
\* themselves, and the SDK calls it made
Ret(op, kind, degrees, args, rpy, recv, raw, vals, made) ==
    [op |-> op, kind |-> kind, degrees |-> degrees, args |-> args, rpy |-> rpy,
     recv |-> recv, raw |-> raw, vals |-> vals, calls |-> made]

NoRet == Ret("none", "none", FALSE, <<>>, NoRPY, NoRPY, NoRaw, <<>>, <<>>)

\* ahrs1 = AHRS(com)
Construct(com, success) ==
    /\ pc = "start"
    /\ \E r \in {__init__(com, success)} :
          /\ calls' = calls \o r.calls
          /\ pc' = IF r.exited THEN "exited" ELSE "ready"
          /\ exit_msg' = r.msg
          /\ self_node' = r.node
          /\ latest_packets' = r.latest_packets
          /\ ret' = Ret("__init__", IF r.exited THEN "SystemExit" ELSE "AHRS", FALSE,
                        <<com>>, NoRPY, NoRPY, NoRaw, <<>>, r.calls)
    /\ UNCHANGED <<polled, pair_vars>>

\* the outcome of update(degrees) as the caller sees it
UpdateRet(r, degrees) ==
    Ret("update", r.kind, degrees, <<>>, r.rpy, NoRPY, r.raw, <<>>, r.calls)

\* ahrs1.update(degrees), the node answering the poll with the packet set returned
Update(returned, degrees) ==
    /\ pc = "ready"
    /\ \E r \in {update(latest_packets, returned, degrees)} :
          /\ latest_packets' = r.latest_packets
          /\ ret' = UpdateRet(r, degrees)
    /\ polled' = Some(returned)
    /\ UNCHANGED <<pc, exit_msg, calls, self_node, pair_vars>>

\* ahrs1.get_rpy_rad()
GetRpyRad ==
    /\ pc = "ready"
    /\ \E r \in {get_rpy_rad(latest_packets)} :
          ret' = Ret("get_rpy_rad", r.kind, FALSE, <<>>, r.rpy, r.recv, NoRaw, <<>>, <<>>)
    /\ UNCHANGED <<pc, exit_msg, calls, self_node, latest_packets, polled, pair_vars>>

\* ahrs1.get_rpy_deg()
GetRpyDeg ==
    /\ pc = "ready"
    /\ \E r \in {get_rpy_deg(latest_packets)} :
          ret' = Ret("get_rpy_deg", r.kind, TRUE, <<>>, r.rpy, r.recv, NoRaw, <<>>, <<>>)
    /\ UNCHANGED <<pc, exit_msg, calls, self_node, latest_packets, polled, pair_vars>>

\* get_raw_data as it would be if it dropped the packets it has read
GetRawData_consuming ==
    /\ pc = "ready"
    /\ \E r \in {get_raw_data(latest_packets)} :
          ret' = Ret("get_raw_data", r.kind, FALSE, <<>>, NoRPY, NoRPY, r.raw, <<>>, <<>>)
    /\ latest_packets' = IF latest_packets.none THEN None ELSE Some(<<>>)
    /\ UNCHANGED <<pc, exit_msg, calls, self_node, polled, pair_vars>>

\* ahrs1.get_raw_data()
GetRawData ==
    /\ pc = "ready"
    /\ \E r \in {get_raw_data(latest_packets)} :
          ret' = Ret("get_raw_data", r.kind, FALSE, <<>>, NoRPY, NoRPY, r.raw, <<>>, <<>>)
    /\ UNCHANGED <<pc, exit_msg, calls, self_node, latest_packets, polled, pair_vars>>

\* ahrs1._get_latest_data(names)
GetLatestData(names) ==
    /\ pc = "ready"
    /\ \E data \in {_get_latest_data(latest_packets, names)} :
          ret' = Ret("_get_latest_data", IF data.none THEN "None" ELSE "values", FALSE,
                     names, NoRPY, NoRPY, NoRaw, data.val, <<>>)
    /\ UNCHANGED <<pc, exit_msg, calls, self_node, latest_packets, polled, pair_vars>>

Init ==
    /\ pc = "start"
    /\ exit_msg = ""
    /\ calls = <<>>
    /\ self_node = "None"
    /\ latest_packets = None
    /\ polled = None
    /\ ret = NoRet
    /\ latest_packets2 = None
    /\ polled2 = None
    /\ ret2 = NoRet
    /\ had_roll = FALSE
    /\ had_roll2 = FALSE

Next ==
    \/ \E com \in Ports, success \in BOOLEAN : Construct(com, success)
    \/ \E returned \in PacketSets, degrees \in BOOLEAN : Update(returned, degrees)
    \/ GetRpyRad
    \/ GetRpyDeg
    \/ GetRawData
    \/ \E names \in NameLists : GetLatestData(names)

Spec == Init /\ [][Next]_vars

-----------------------------------------------------------------------------
(* Two AHRS objects, each on a node of its own, both constructed; each is     *)
(* polled on its own, so their poll histories differ                          *)

\* whether some data point of the packet set lp holds carries the channel name
Carries(lp, name) ==
    /\ ~lp.none
    /\ \E k \in 1..Len(Flatten(lp.val)) : Flatten(lp.val)[k].channelName = name

\* ahrs1.update(degrees) in the two-object program
PairUpdate1(returned, degrees) ==
    /\ pc = "ready"
    /\ \E r \in {update(latest_packets, returned, degrees)} :
          /\ latest_packets' = r.latest_packets
          /\ ret' = UpdateRet(r, degrees)
    /\ polled' = Some(returned)
    /\ had_roll' = (had_roll \/ Carries(latest_packets, "roll"))
    /\ UNCHANGED <<pc, exit_msg, calls, self_node, latest_packets2, polled2, ret2, had_roll2>>

\* ahrs2.update(degrees)
PairUpdate2(returned, degrees) ==
    /\ pc = "ready"
    /\ \E r \in {update(latest_packets2, returned, degrees)} :
          /\ latest_packets2' = r.latest_packets
          /\ ret2' = UpdateRet(r, degrees)
    /\ polled2' = Some(returned)
    /\ had_roll2' = (had_roll2 \/ Carries(latest_packets2, "roll"))
    /\ UNCHANGED <<pc, exit_msg, calls, self_node, latest_packets, polled, ret, had_roll>>

InitPair ==
    /\ pc = "ready"
    /\ exit_msg = ""
    /\ \E com \in Ports : \E r \in {__init__(com, TRUE)} :
          /\ calls = r.calls
          /\ self_node = r.node
          /\ latest_packets = r.latest_packets
          /\ latest_packets2 = r.latest_packets
          /\ ret = Ret("__init__", "AHRS", FALSE, <<com>>, NoRPY, NoRPY, NoRaw, <<>>, r.calls)
          /\ ret2 = ret
    /\ polled = None
    /\ polled2 = None
    /\ had_roll = FALSE
    /\ had_roll2 = FALSE

NextPair ==
    \/ \E returned \in PairPacketSets, degrees \in BOOLEAN : PairUpdate1(returned, degrees)
    \/ \E returned \in PairPacketSets, degrees \in BOOLEAN : PairUpdate2(returned, degrees)

SpecPair == InitPair /\ [][NextPair]_vars

-----------------------------------------------------------------------------
(* Properties *)

\* the index of the last data point of pts that carries the channel name
LastIndex(pts, name) ==
    CHOOSE k \in 1..Len(pts) :
        /\ pts[k].channelName = name
        /\ \A j \in (k + 1)..Len(pts) : pts[j].channelName # name

\* as_float() of the last data point of pts carrying name, 0 when there is none
LastValue(pts, name) ==
    IF \E k \in 1..Len(pts) : pts[k].channelName = name
    THEN as_float(pts[LastIndex(pts, name)])
    ELSE Zero

Distinct(names) == \A i, j \in 1..Len(names) : names[i] = names[j] => i = j

GetterOps == {"get_rpy_rad", "get_rpy_deg", "get_raw_data", "_get_latest_data"}

ThePoll == <<Call("getDataPackets", "", 500, <<>>)>>

\* x * 57.295779513
Times57_295779513(x) ==
    Num(x.i * 57 + (x.i * 295779513) \div 1000000000, (x.i * 295779513) % 1000000000)

\* C1: every update() polls the node exactly once (getDataPackets(500)), and
\* the AHRS_RPY and the AHRS_Raw it returns are both extracted from the packet
\* set that poll returned.
C1_UpdatePollsOnce ==
    ret.op = "update" =>
        /\ ret.calls = ThePoll
        /\ latest_packets = polled
        /\ ret.kind = "tuple"
        /\ ret.rpy = (IF ret.degrees THEN get_rpy_deg(polled) ELSE get_rpy_rad(polled)).rpy
        /\ ret.raw = get_raw_data(polled).raw

C1_Witness ==
    /\ ret.op = "update"
    /\ ret.degrees
    /\ Len(polled.val) = 2
    /\ ret.rpy.roll # Zero
    /\ ret.raw.ay # Zero

\* C2: _get_latest_data(names) on a packet set, names distinct, yields one
\* value per name in the order of names: as_float() of the last data point
\* carrying the name (packets in order, points in order), 0 when none does;
\* get_rpy_rad and get_raw_data assign each value to the field of its name.
C2_LatestDataByName ==
    /\ (ret.op = "_get_latest_data" /\ ~latest_packets.none /\ Distinct(ret.args)) =>
          /\ ret.kind = "values"
          /\ Len(ret.vals) = Len(ret.args)
          /\ \A i \in 1..Len(ret.args) :
                ret.vals[i] = LastValue(Flatten(latest_packets.val), ret.args[i])
    /\ (ret.op = "get_rpy_rad" /\ ~latest_packets.none) =>
          ret.rpy = AHRS_RPY(LastValue(Flatten(latest_packets.val), "roll"),
                             LastValue(Flatten(latest_packets.val), "pitch"),
                             LastValue(Flatten(latest_packets.val), "yaw"))
    /\ (ret.op = "get_raw_data" /\ ~latest_packets.none) =>
          ret.raw = AHRS_Raw(LastValue(Flatten(latest_packets.val), "scaledAccelX"),
                             LastValue(Flatten(latest_packets.val), "scaledAccelY"),
                             LastValue(Flatten(latest_packets.val), "scaledAccelZ"),
                             LastValue(Flatten(latest_packets.val), "scaledGyroX"),
                             LastValue(Flatten(latest_packets.val), "scaledGyroY"),
                             LastValue(Flatten(latest_packets.val), "scaledGyroZ"))

\* two packets: the first carries roll, the second yaw; asked for yaw, a
\* foreign name and roll, in that order
C2_Witness ==
    /\ ret.op = "_get_latest_data"
    /\ ret.args = <<"yaw", "temperature", "roll">>
    /\ ~latest_packets.none
    /\ latest_packets.val = <<<<DataPoint("roll", 1)>>, <<DataPoint("yaw", 2)>>>>
    /\ ret.vals = <<FromInt(2), Zero, FromInt(1)>>

\* C3: when ping() fails the program exits with the message, having called
\* neither setActiveChannelFields nor enableDataStream; no AHRS object exists
\* and no poll is made; and the program exits in construction only when ping()
\* failed.
C3_PingFailureExits ==
    /\ pc = "exited" =>
          /\ exit_msg = "Unable to establish a connection with the Microstrain AHRS."
          /\ ret.kind = "SystemExit"
          /\ \A i \in 1..Len(calls) :
                calls[i].fn \notin {"setActiveChannelFields", "enableDataStream",
                                    "getDataPackets"}
          /\ self_node = "None"
          /\ latest_packets.none
          /\ polled.none
    /\ pc # "start" =>
          /\ Len(calls) >= 3
          /\ calls[3].fn = "ping"
          /\ (pc = "exited") <=> (calls[3].str = "False")

C3_Witness == pc = "exited" /\ Len(calls) = 3

\* C4: a successful construction makes these SDK calls, each once, in this
\* order: Connection.Serial(port, 115200), InertialNode, ping,
\* setActiveChannelFields with the three channels at 100 Hz, enableDataStream;
\* the port is the one given; no poll is made before the stream is enabled.
C4_ConstructionOrder ==
    /\ pc = "ready" =>
          \E port \in Ports :
              calls = <<Call("Connection.Serial", port, 115200, <<>>),
                        Call("InertialNode", port, 0, <<>>),
                        Call("ping", "True", 0, <<>>),
                        Call("setActiveChannelFields", "CLASS_AHRS_IMU", 0,
                             <<MipChannel("CH_FIELD_SENSOR_EULER_ANGLES", 100),
                               MipChannel("CH_FIELD_SENSOR_SCALED_ACCEL_VEC", 100),
                               MipChannel("CH_FIELD_SENSOR_SCALED_GYRO_VEC", 100)>>),
                        Call("enableDataStream", "CLASS_AHRS_IMU", 0, <<>>)>>
    /\ (ret.op = "__init__" /\ ret.kind = "AHRS") =>
          /\ calls[1].str = ret.args[1]
          /\ ret.calls = calls
    /\ \A i \in 1..Len(calls) :
          calls[i].fn = "enableDataStream" =>
              \E j \in 1..(i - 1) : calls[j].fn = "setActiveChannelFields"
    /\ ~polled.none =>
          /\ pc = "ready"
          /\ calls[Len(calls)].fn = "enableDataStream"

C4_Witness == pc = "ready" /\ ~polled.none /\ Len(calls) = 5

\* C5: update(degrees) returns an (AHRS_RPY, AHRS_Raw) pair; for the polled
\* packet set, the AHRS_RPY of degrees=True is to_degrees() of the one of
\* degrees=False, each field times 57.295779513, and the AHRS_Raw is the same
\* for both values of the flag.
C5_DegreesFlag ==
    ret.op = "update" =>
        /\ ret.kind = "tuple"
        /\ ret.raw = update(None, polled.val, FALSE).raw
        /\ ret.raw = update(None, polled.val, TRUE).raw
        /\ ~ret.degrees => ret.rpy = update(None, polled.val, FALSE).rpy
        /\ ret.degrees =>
              /\ ret.rpy = to_degrees(update(None, polled.val, FALSE).rpy).result
              /\ ret.rpy.roll = Times57_295779513(update(None, polled.val, FALSE).rpy.roll)
              /\ ret.rpy.pitch = Times57_295779513(update(None, polled.val, FALSE).rpy.pitch)
              /\ ret.rpy.yaw = Times57_295779513(update(None, polled.val, FALSE).rpy.yaw)

C5_Witness ==
    /\ ret.op = "update"
    /\ ret.degrees
    /\ ret.rpy.yaw = Num(114, 591559026)
    /\ ret.raw.gz = FromInt(1)

\* C6: on a constructed AHRS, get_rpy_rad() and get_rpy_deg() return an
\* AHRS_RPY and get_raw_data() returns an AHRS_Raw, also before the first
\* update().
C6_GettersReturnObjects ==
    pc = "ready" =>
        /\ ret.op \in {"get_rpy_rad", "get_rpy_deg"} => ret.kind = "AHRS_RPY"
        /\ ret.op = "get_raw_data" => ret.kind = "AHRS_Raw"

RpyField(rpy, name) ==
    CASE name = "roll" -> rpy.roll
      [] name = "pitch" -> rpy.pitch
      [] name = "yaw" -> rpy.yaw

RawField(raw, name) ==
    CASE name = "scaledAccelX" -> raw.ax
      [] name = "scaledAccelY" -> raw.ay
      [] name = "scaledAccelZ" -> raw.az
      [] name = "scaledGyroX" -> raw.gx
      [] name = "scaledGyroY" -> raw.gy
      [] name = "scaledGyroZ" -> raw.gz

\* what update() returned reports 0 for every channel its own poll did not carry
AbsentIsZero(r, p) ==
    /\ \A name \in Range(RPY_NAMES) : ~Carries(p, name) => RpyField(r.rpy, name) = Zero
    /\ \A name \in Range(ACCEL_NAMES) \cup Range(GYRO_NAMES) :
          ~Carries(p, name) => RawField(r.raw, name) = Zero

\* C7: two AHRS objects, whatever their earlier polls, that are returned the
\* same packet set by the poll of their current update(degrees) return equal
\* AHRS_RPY and AHRS_Raw; a channel the current packet set does not carry is
\* reported as 0.
C7_NoHistory ==
    /\ (ret.op = "update" /\ ret2.op = "update" /\ polled = polled2
        /\ ret.degrees = ret2.degrees) =>
          /\ ret.kind = ret2.kind
          /\ ret.rpy = ret2.rpy
          /\ ret.raw = ret2.raw
    /\ ret.op = "update" => AbsentIsZero(ret, polled)
    /\ ret2.op = "update" => AbsentIsZero(ret2, polled2)

\* the first object saw roll in an earlier poll, the second never did; the
\* same packet set, without roll, is returned to both
C7_Witness ==
    /\ ret.op = "update"
    /\ ret2.op = "update"
    /\ polled = polled2
    /\ ret.degrees = ret2.degrees
    /\ had_roll
    /\ ~had_roll2
    /\ ~Carries(polled, "roll")
    /\ Carries(polled, "yaw")
    /\ ret.rpy.roll = Zero
    /\ ret.rpy.yaw # Zero

\* C8: to_degrees() leaves the roll, pitch and yaw of the object it is called
\* on as they were (the radians get_rpy_rad extracted), and get_rpy_deg()
\* called again with no poll in between returns the same degree values.
C8_ToDegreesFrame ==
    /\ []((ret.op = "get_rpy_deg" /\ ret.kind = "AHRS_RPY") =>
            ret.recv = get_rpy_rad(latest_packets).rpy)
    /\ [][(ret.op = "get_rpy_deg" /\ ret'.op = "get_rpy_deg") => ret'.rpy = ret.rpy]_vars

C8_Witness ==
    /\ ret.op = "get_rpy_deg"
    /\ ret.kind = "AHRS_RPY"
    /\ ret.recv.yaw = FromInt(2)
    /\ ret.rpy.yaw = Num(114, 591559026)

\* C9: the getters make no SDK call and leave latest_packets and node as they
\* were; latest_packets changes only in update(), by its poll; a getter called
\* again with no update() in between returns what it returned before.
C9_GettersFrame ==
    [][/\ ret'.op \in GetterOps =>
             /\ ret'.calls = <<>>
             /\ latest_packets' = latest_packets
             /\ polled' = polled
             /\ self_node' = self_node
       /\ latest_packets' # latest_packets =>
             /\ ret'.op = "update"
             /\ ret'.calls = ThePoll
             /\ latest_packets' = polled'
       /\ (ret.op \in GetterOps /\ ret'.op = ret.op /\ ret'.args = ret.args) =>
             ret' = ret]_vars

C9_Witness ==
    /\ ret.op = "get_raw_data"
    /\ ret.kind = "AHRS_Raw"
    /\ ret.raw.ay # Zero
    /\ latest_packets = polled
    /\ ret.calls = <<>>

====
